---- MODULE Spec2Model ----
(***************************************************************************)
(* A model of easylog (src/easylog.go): producers calling Write, the       *)
(* ingress channel Pipe, the flush pump _serveLog, the file writer         *)
(* _writeFile (_tryWrite, _rename, _mustWrite) and the retention sweeper   *)
(* started by _initFileRemove.                                             *)
(*                                                                         *)
(* Sizes are scaled: MiB stands for 1024*1024 bytes and MinBufLen for the  *)
(* channel capacity floor of 10, so that a bounded number of Write calls   *)
(* fills the channel, overflows the cache and rotates the file. The record *)
(* limit says what the environment of a specification does.                *)
(* A byte is modelled by the number of the Write call that produced it     *)
(* (0 for a byte of a file left by an earlier run), a buffer or a file by  *)
(* the sequence of its bytes, and a rotated file's name by the second of   *)
(* the clock that _rename formatted into its suffix.                       *)
(***************************************************************************)
EXTENDS Integers, Sequences, FiniteSets, TLC

\* ----- bounds of the model ------------------------------------------------
MiB == 2
MinBufLen == 1
MaxPayload == 3
MaxWrites == 3
MaxWritesLive == 2
NProd == 2
MaxPre == 2
MaxClock == 1
MaxSleeps == 2
MaxSets == 2

\* ----- program constants --------------------------------------------------
ChCap == 1
DefaultFileSizeMiB == 4
RenameTries == 2

Prod == 1..NProd
Buf == 1..(NProd + MinBufLen + 2)
BufLens == {0, MinBufLen + 1}
PayloadLens == {1, MaxPayload}
FileSizeArgs == {1, MiB + 1}
FileCountArgs == {-1, 1, 2}
LastSecond == MaxPre + 1 + MaxClock
LastSleep == LastSecond + MaxSleeps

VARIABLES
    MaxFileSize,    \* t.MaxFileSize
    MaxFileCount,   \* t.MaxFileCount
    pipeCap,        \* cap(t.Pipe)
    Pipe,           \* t.Pipe: the queued buffers, oldest first
    pool,           \* t.pool: the buffers free for Get
    bufs,           \* the bytes of each record buffer
    wpc,            \* each producer's position in Write
    wbuf,           \* the buffer each producer holds (0: none)
    data,           \* the pump's accumulation buffer
    maxCacheSize,   \* the pump's maxCacheSize
    tmC,            \* ticks pending on the pump's ticker channel (0 or 1)
    pumpPc,         \* the pump's position in _serveLog / _writeFile
    pumpRet,        \* which flush called _writeFile: "tick" or "eager"
    pv,             \* the buffer the pump received and has not yet Put (0: none)
    active,         \* the active log file: [exists, bytes]
    rotated,        \* the rotated files: name (second) -> bytes
    now,            \* the wall clock, in seconds
    tries,          \* _rename's loop index i
    newname,        \* _rename's newname (0 outside _rename's retries)
    ch,             \* len(ch), the sweeper's trigger channel
    sweepPc,        \* the sweeper's position
    flist,          \* cleanFile's flist
    idx,            \* cleanFile's loop index i
    calls,          \* Write calls made so far
    sets,           \* setter calls made so far
    limit,          \* what the environment does: how many Write and setter calls,
                    \* which callers, which payload lengths, which file operation failures,
                    \* which channel capacities
    enq,            \* history: the bytes enqueued on Pipe, in order
    written,        \* history: the bytes appended to the active file, in order
    swept,          \* history: the sweeper has removed a file
    notifs,         \* history: nofityDelFile calls since the sweeper last woke (saturates at 2)
    lastWriter,     \* history: what wrote the active file last: "none", "try", "must"
    capLowered,     \* history: MaxFileSize was lowered since the active file's last append
    rotCfg,         \* history: a rotation happened since MaxFileCount last changed
    ioFailed        \* history: a file operation of the pump has failed

vars == <<MaxFileSize, MaxFileCount, pipeCap, Pipe, pool, bufs, wpc, wbuf, data,
          maxCacheSize, tmC, pumpPc, pumpRet, pv, active, rotated, now, tries, newname,
          ch, sweepPc, flist, idx, calls, sets, limit, enq, written, swept, notifs,
          lastWriter, capLowered, rotCfg, ioFailed>>

cfgVars == <<MaxFileSize, MaxFileCount, sets>>
prodVars == <<wpc, wbuf, calls>>
fileVars == <<active, rotated>>
renVars == <<tries, newname>>
sweepVars == <<sweepPc, flist, idx>>
histVars == <<enq, written, swept, notifs, lastWriter, capLowered, rotCfg, ioFailed>>

\* ----- helpers --------------------------------------------------------------
Min(S) == CHOOSE x \in S : \A y \in S : x <= y

RECURSIVE Flatten(_)
Flatten(q) == IF q = <<>> THEN <<>> ELSE bufs[Head(q)] \o Flatten(Tail(q))

\* bytes.Buffer.Write of a p of n bytes by Write call k
Payload(k, n) == [j \in 1..n |-> k]

NoFile == [exists |-> FALSE, bytes |-> <<>>]

\* os.OpenFile(O_CREATE|O_APPEND): the file as it is once opened
Opened(f) == [exists |-> TRUE, bytes |-> f.bytes]

\* io.Copy(f, data) on a file opened for append
Appended(f, d) == [exists |-> TRUE, bytes |-> f.bytes \o d]

\* NewLog's clamp of buflen
ClampBufLen(buflen) == IF buflen < MinBufLen THEN MinBufLen ELSE buflen

\* SetMaxFileSize's clamp
ClampFileSize(v) == IF v < MiB THEN MiB ELSE v

\* SetMaxFileCount's clamp
ClampFileCount(k) == IF k < 0 THEN 0 ELSE k

\* _serveLog's CalcMaxCacheSize
CalcMaxCacheSize(maxFileSize) == IF maxFileSize > MiB * 1 THEN MiB * 1 ELSE maxFileSize

\* the outcome of one call's file operations: whether OpenFile and Stat succeed,
\* and how many of the last bytes io.Copy fails to write (0: it writes them all);
\* the first operation to fail decides the outcome
IoOk == [open |-> TRUE, stat |-> TRUE, short |-> 0]
IoOutcomes ==
    {IoOk,
     [open |-> FALSE, stat |-> TRUE, short |-> 0],
     [open |-> TRUE, stat |-> FALSE, short |-> 0],
     [open |-> TRUE, stat |-> TRUE, short |-> 1]}

\* ----- Init: the state after NewLog ---------------------------------------
InitCommon ==
    /\ \E buflen \in BufLens : pipeCap = ClampBufLen(buflen)
    /\ Pipe = <<>>
    /\ pool = Buf
    /\ bufs = [b \in Buf |-> <<>>]
    /\ wpc = [p \in Prod |-> "idle"]
    /\ wbuf = [p \in Prod |-> 0]
    /\ data = <<>>
    /\ maxCacheSize = CalcMaxCacheSize(MiB * DefaultFileSizeMiB)
    /\ tmC = 0
    /\ pumpPc = "select"
    /\ pumpRet = "tick"
    /\ pv = 0
    /\ active = NoFile
    /\ \E n \in {0, MaxPre} : rotated = [t \in 1..n |-> <<0>>]
    /\ now = MaxPre + 1
    /\ tries = 0
    /\ newname = 0
    /\ ch = 0
    /\ sweepPc = "wait"
    /\ flist = <<>>
    /\ idx = 0
    /\ calls = 0
    /\ sets = 0
    /\ enq = <<>>
    /\ written = <<>>
    /\ swept = FALSE
    /\ notifs = 0
    /\ lastWriter = "none"
    /\ capLowered = FALSE
    /\ rotCfg = FALSE
    /\ ioFailed = FALSE

\* NewLog, lines 35-49, in a directory that may hold rotated files of an earlier run
Init ==
    /\ InitCommon
    /\ MaxFileSize = MiB * DefaultFileSizeMiB
    /\ MaxFileCount = 0
    /\ limit = [writes |-> MaxWrites, sets |-> MaxSets, prods |-> Prod, lens |-> PayloadLens,
                fails |-> IoOutcomes \ {IoOk}, caps |-> {MinBufLen + 1}]
    /\ pipeCap \in limit.caps

\* NewLog followed by SetMaxFileSize and SetMaxFileCount, before the first Write;
\* the configuration then stays as it is
Configured ==
    /\ InitCommon
    /\ MaxFileSize \in {MiB * DefaultFileSizeMiB} \cup {ClampFileSize(v) : v \in FileSizeArgs}
    /\ MaxFileCount \in {0} \cup {ClampFileCount(k) : k \in FileCountArgs}

InitCfg ==
    /\ Configured
    /\ limit = [writes |-> MaxWrites, sets |-> 0, prods |-> Prod, lens |-> PayloadLens,
                fails |-> IoOutcomes \ {IoOk}, caps |-> {MinBufLen + 1}]
    /\ pipeCap \in limit.caps

InitLive ==
    /\ Configured
    /\ limit = [writes |-> MaxWritesLive, sets |-> 0, prods |-> Prod, lens |-> PayloadLens,
                fails |-> IoOutcomes \ {IoOk}, caps |-> {MinBufLen + 1}]
    /\ pipeCap \in limit.caps

\* NewLog with the smallest channel in an empty directory, then SetMaxFileSize
\* with the smallest size and SetMaxFileCount(1), before one caller makes enough
\* Write calls to fill the channel while the pump is busy
InitBusy ==
    /\ InitCommon
    /\ MaxFileSize = ClampFileSize(Min(FileSizeArgs))
    /\ MaxFileCount = ClampFileCount(1)
    /\ rotated = <<>>
    /\ limit = [writes |-> MaxWrites, sets |-> 0, prods |-> {1}, lens |-> PayloadLens,
                fails |-> IoOutcomes \ {IoOk}, caps |-> {MinBufLen}]
    /\ pipeCap \in limit.caps

\* ----- configuration setters ----------------------------------------------
SetMaxFileSize(v) ==
    /\ sets < limit.sets
    /\ MaxFileSize' = ClampFileSize(v)
    /\ sets' = sets + 1
    /\ capLowered' = (capLowered \/ MaxFileSize' < MaxFileSize)
    /\ UNCHANGED <<MaxFileCount, pipeCap, Pipe, pool, bufs, data, maxCacheSize, tmC,
                   pumpPc, pumpRet, pv, now, ch, limit, enq, written, swept, notifs,
                   lastWriter, rotCfg, ioFailed>>
    /\ UNCHANGED <<prodVars, fileVars, renVars, sweepVars>>

SetMaxFileCount(k) ==
    /\ sets < limit.sets
    /\ MaxFileCount' = ClampFileCount(k)
    /\ sets' = sets + 1
    /\ rotCfg' = (rotCfg /\ MaxFileCount' = MaxFileCount)
    /\ UNCHANGED <<MaxFileSize, pipeCap, Pipe, pool, bufs, data, maxCacheSize, tmC,
                   pumpPc, pumpRet, pv, now, ch, limit, enq, written, swept, notifs,
                   lastWriter, capLowered, ioFailed>>
    /\ UNCHANGED <<prodVars, fileVars, renVars, sweepVars>>

\* ----- Write ----------------------------------------------------------------
\* a Get that hands out one buffer whether it is free or not
PoolGetFirst(pl) == 1

\* t.pool.Get(): some free buffer (the lowest, buffers being interchangeable)
PoolGet(pl) == Min(pl)

\* a send that does not wait for room
CanSendAlways(q, cap) == TRUE

\* t.Pipe <- buf can proceed
CanSend(q, cap) == Len(q) < cap

\* t.Pipe <- buf
Sent(q, b) == Append(q, b)

\* Write, lines 92-94: Get, Reset, buf.Write(p)
WriteFill(p, n) ==
    /\ wpc[p] = "idle"
    /\ calls < limit.writes
    /\ p \in limit.prods
    /\ n \in limit.lens
    /\ LET b == PoolGet(pool) IN
        /\ pool' = pool \ {b}
        /\ bufs' = [bufs EXCEPT ![b] = Payload(calls + 1, n)]
        /\ wbuf' = [wbuf EXCEPT ![p] = b]
    /\ wpc' = [wpc EXCEPT ![p] = "send"]
    /\ calls' = calls + 1
    /\ UNCHANGED <<cfgVars, pipeCap, Pipe, data, maxCacheSize, tmC, pumpPc, pumpRet, pv,
                   now, ch, limit>>
    /\ UNCHANGED <<fileVars, renVars, sweepVars, histVars>>

\* Write, lines 96-98: the send on Pipe, then the return
WriteSend(p) ==
    /\ wpc[p] = "send"
    /\ CanSend(Pipe, pipeCap)
    /\ Pipe' = Sent(Pipe, wbuf[p])
    /\ enq' = enq \o bufs[wbuf[p]]
    /\ wbuf' = [wbuf EXCEPT ![p] = 0]
    /\ wpc' = [wpc EXCEPT ![p] = "idle"]
    /\ UNCHANGED <<cfgVars, pipeCap, pool, bufs, data, maxCacheSize, tmC, pumpPc,
                   pumpRet, pv, now, ch, calls, limit, written, swept, notifs,
                   lastWriter, capLowered, rotCfg, ioFailed>>
    /\ UNCHANGED <<fileVars, renVars, sweepVars>>

\* ----- the ticker and the clock ---------------------------------------------
\* the ticker sends on tm.C, a channel of capacity 1; a tick that finds it full is dropped
TimerFire ==
    /\ tmC = 0
    /\ tmC' = 1
    /\ UNCHANGED <<cfgVars, pipeCap, Pipe, pool, bufs, data, maxCacheSize, pumpPc,
                   pumpRet, pv, now, ch, limit>>
    /\ UNCHANGED <<prodVars, fileVars, renVars, sweepVars, histVars>>

\* a second of wall-clock time passes
ClockSecond ==
    /\ now < LastSecond
    /\ now' = now + 1
    /\ UNCHANGED <<cfgVars, pipeCap, Pipe, pool, bufs, data, maxCacheSize, tmC, pumpPc,
                   pumpRet, pv, ch, limit>>
    /\ UNCHANGED <<prodVars, fileVars, renVars, sweepVars, histVars>>

\* ----- the file writer -------------------------------------------------------
\* a copy that stops one byte short, and one that never stops short
CopiedShort(d, io) == SubSeq(d, 1, Len(d) - 1)
CopiedAll(d, io) == d

\* what io.Copy(f, data) gets written of d
Copied(d, io) == SubSeq(d, 1, IF io.short > Len(d) THEN 0 ELSE Len(d) - io.short)

\* size checks that are off: blind to the bytes to append, strict at the cap,
\* waved through on an empty file
TryAcceptsSizeOnly(fsize, n, maxFileSize) == ~(fsize > maxFileSize)
TryAcceptsStrict(fsize, n, maxFileSize) == fsize + n < maxFileSize
TryAcceptsEmpty(fsize, n, maxFileSize) == fsize = 0 \/ ~(fsize + n > maxFileSize)

\* _tryWrite's size check, line 184 negated: the append is accepted
TryAccepts(fsize, n, maxFileSize) == ~(fsize + n > maxFileSize)

\* os.Rename(oldpath, newpath): the directory's rotated files afterwards; a
\* file already at newpath is replaced
Renamed(dir, name, bytes) ==
    [t \in DOMAIN dir \cup {name} |-> IF t = name THEN bytes ELSE dir[t]]

\* os.Remove of a rotated file (no effect when there is no such file)
Removed(dir, name) == [t \in DOMAIN dir \ {name} |-> dir[t]]

\* a notification that never signals, one that signals without looking, and
\* one that takes a pending signal away
NotifyNever(c) == c
NotifyAlways(c) == c + 1
NotifyDrain(c) == 0

\* nofityDelFile, lines 153-155: len(ch) afterwards
nofityDelFile(c) == IF c = 0 THEN c + 1 ELSE c

\* a _writeFile that goes on to rotate whatever _tryWrite returned, and a loop
\* that goes from a flush to the eager flush, never back to its select
AfterFlushRotates(ret) == "rename"
AfterFlushEager(ret) == "eager"

\* where _serveLog goes on once _writeFile has returned and data is reset:
\* the tick case recomputes maxCacheSize (line 250), the eager flush loops
AfterFlush(ret) == IF ret = "tick" THEN "recalc" ELSE "select"

\* _writeFile's call of _tryWrite (lines 173-191) for the flush `ret`, and what
\* follows at once: on true, _writeFile returns and data is reset; on a nil
\* FileInfo (line 183) the call panics, which ends this run of do
TryWrite(ret, io) ==
    LET f == Opened(active)
        fsize == Len(f.bytes)
    IN  /\ pumpRet' = ret
        /\ tmC' = 0
        /\ ioFailed' = (ioFailed \/ ~io.open \/ ~io.stat
                          \/ (TryAccepts(fsize, Len(data), MaxFileSize) /\ io.short > 0))
        /\ IF ~io.open
           THEN /\ data' = <<>>
                /\ pumpPc' = AfterFlush(ret)
                /\ UNCHANGED <<active, written, lastWriter, capLowered, maxCacheSize>>
           ELSE IF ~io.stat
           THEN /\ active' = f
                /\ pumpPc' = "restart"
                /\ UNCHANGED <<written, data, lastWriter, capLowered, maxCacheSize>>
           ELSE IF TryAccepts(fsize, Len(data), MaxFileSize)
           THEN /\ active' = Appended(f, Copied(data, io))
                /\ written' = written \o Copied(data, io)
                /\ data' = <<>>
                /\ lastWriter' = "try"
                /\ capLowered' = FALSE
                /\ pumpPc' = AfterFlush(ret)
                /\ UNCHANGED maxCacheSize
           ELSE /\ active' = f
                /\ pumpPc' = "rename"
                /\ UNCHANGED <<written, data, lastWriter, capLowered, maxCacheSize>>

\* ----- the pump: _serveLog's do ------------------------------------------------
\* a size test that lets one byte more through
OverCacheLoose(d, cache) == Len(d) > cache + 1

\* line 253: the test that sends the pump to the eager flush
OverCache(d, cache) == Len(d) > cache

\* lines 239-241: the receive, and the copy of the buffer's bytes into data
PumpRecv ==
    /\ pumpPc = "select"
    /\ Pipe # <<>>
    /\ pv' = Head(Pipe)
    /\ data' = data \o bufs[Head(Pipe)]
    /\ Pipe' = Tail(Pipe)
    /\ pumpPc' = "put"
    /\ UNCHANGED <<cfgVars, pipeCap, pool, bufs, maxCacheSize, tmC, pumpRet, now, ch, limit>>
    /\ UNCHANGED <<prodVars, fileVars, renVars, sweepVars, histVars>>

\* lines 242-243: v.Reset() and t.pool.Put(v), then the test of line 253
PumpPut ==
    /\ pumpPc = "put"
    /\ bufs' = [bufs EXCEPT ![pv] = <<>>]
    /\ pool' = pool \cup {pv}
    /\ pv' = 0
    /\ pumpPc' = IF OverCache(data, maxCacheSize) THEN "eager" ELSE "select"
    /\ UNCHANGED <<cfgVars, pipeCap, Pipe, data, maxCacheSize, tmC, pumpRet, now, ch, limit>>
    /\ UNCHANGED <<prodVars, fileVars, renVars, sweepVars, histVars>>

\* lines 245-250 with data empty: only maxCacheSize is recomputed
PumpTickIdle ==
    /\ pumpPc = "select"
    /\ tmC = 1
    /\ Len(data) = 0
    /\ tmC' = 0
    /\ maxCacheSize' = CalcMaxCacheSize(MaxFileSize)
    /\ pumpPc' = IF OverCache(data, maxCacheSize') THEN "eager" ELSE "select"
    /\ UNCHANGED <<cfgVars, pipeCap, Pipe, pool, bufs, data, pumpRet, pv, now, ch, limit>>
    /\ UNCHANGED <<prodVars, fileVars, renVars, sweepVars, histVars>>

\* lines 245-247: a tick with data to flush
PumpTickFlush(io) ==
    /\ pumpPc = "select"
    /\ tmC = 1
    /\ Len(data) > 0
    /\ TryWrite("tick", io)
    /\ UNCHANGED <<cfgVars, pipeCap, Pipe, pool, bufs, pv, rotated, now, ch, limit, enq,
                   swept, notifs, rotCfg>>
    /\ UNCHANGED <<prodVars, renVars, sweepVars>>

\* lines 254-255: the eager flush waits for a tick, then calls _writeFile
PumpEagerFlush(io) ==
    /\ pumpPc = "eager"
    /\ tmC = 1
    /\ TryWrite("eager", io)
    /\ UNCHANGED <<cfgVars, pipeCap, Pipe, pool, bufs, pv, rotated, now, ch, limit, enq,
                   swept, notifs, rotCfg>>
    /\ UNCHANGED <<prodVars, renVars, sweepVars>>

\* the name _rename gives the rotated file (line 161), computed once, before the loop
NewName == IF tries = 0 THEN now ELSE newname

\* line 212: _rename, os.Rename succeeding at this try
PumpRename ==
    /\ pumpPc = "rename"
    /\ active.exists
    /\ rotated' = Renamed(rotated, NewName, active.bytes)
    /\ active' = NoFile
    /\ rotCfg' = TRUE
    /\ tries' = 0
    /\ newname' = 0
    /\ pumpPc' = "mustWrite"
    /\ UNCHANGED <<cfgVars, pipeCap, Pipe, pool, bufs, data, maxCacheSize, tmC, pumpRet, pv,
                   now, ch, limit, enq, written, swept, notifs, lastWriter, capLowered,
                   ioFailed>>
    /\ UNCHANGED <<prodVars, sweepVars>>

\* lines 164-169: os.Rename failing at this try, then the sleep of one second;
\* after the last try _rename returns
PumpRenameFail ==
    /\ pumpPc = "rename"
    /\ now < LastSleep
    /\ now' = now + 1
    /\ IF tries + 1 < RenameTries
       THEN /\ tries' = tries + 1
            /\ newname' = NewName
            /\ pumpPc' = "rename"
       ELSE /\ tries' = 0
            /\ newname' = 0
            /\ pumpPc' = "mustWrite"
    /\ ioFailed' = TRUE
    /\ UNCHANGED <<cfgVars, pipeCap, Pipe, pool, bufs, data, maxCacheSize, tmC, pumpRet, pv,
                   ch, limit, enq, written, swept, notifs, lastWriter, capLowered, rotCfg>>
    /\ UNCHANGED <<prodVars, fileVars, sweepVars>>

\* line 213: _mustWrite (lines 193-205)
PumpMustWrite(io) ==
    /\ pumpPc = "mustWrite"
    /\ IF io.open
       THEN /\ active' = Appended(Opened(active), Copied(data, io))
            /\ written' = written \o Copied(data, io)
            /\ lastWriter' = "must"
            /\ capLowered' = FALSE
       ELSE UNCHANGED <<active, written, lastWriter, capLowered>>
    /\ ioFailed' = (ioFailed \/ ~io.open \/ io.short > 0)
    /\ data' = <<>>
    /\ pumpPc' = "notify"
    /\ UNCHANGED <<cfgVars, pipeCap, Pipe, pool, bufs, maxCacheSize, tmC, pumpRet, pv,
                   rotated, now, ch, limit, enq, swept, notifs, rotCfg>>
    /\ UNCHANGED <<prodVars, renVars, sweepVars>>

\* line 214: nofityDelFile, then data.Reset() (line 248 or 256)
PumpNotify ==
    /\ pumpPc = "notify"
    /\ ch' = nofityDelFile(ch)
    /\ notifs' = IF notifs < 2 THEN notifs + 1 ELSE notifs
    /\ data' = <<>>
    /\ pumpPc' = AfterFlush(pumpRet)
    /\ UNCHANGED <<cfgVars, pipeCap, Pipe, pool, bufs, maxCacheSize, tmC, pumpRet, pv, now,
                   limit, enq, written, swept, lastWriter, capLowered, rotCfg, ioFailed>>
    /\ UNCHANGED <<prodVars, fileVars, renVars, sweepVars>>

\* a restart that keeps the accumulated bytes
KeptData == data

\* line 234: data := &bytes.Buffer{}
NewData == <<>>

\* lines 229-236 after a panic: recover, then do again from its start, with a
\* new maxCacheSize, a new data and a new ticker
PumpRestart ==
    /\ pumpPc = "restart"
    /\ maxCacheSize' = CalcMaxCacheSize(MaxFileSize)
    /\ data' = NewData
    /\ tmC' = 0
    /\ pumpPc' = "select"
    /\ UNCHANGED <<cfgVars, pipeCap, Pipe, pool, bufs, pumpRet, pv, now, ch, limit>>
    /\ UNCHANGED <<prodVars, fileVars, renVars, sweepVars, histVars>>

\* line 250 after a flush, then the test of line 253
PumpRecalc ==
    /\ pumpPc = "recalc"
    /\ maxCacheSize' = CalcMaxCacheSize(MaxFileSize)
    /\ pumpPc' = IF OverCache(data, maxCacheSize') THEN "eager" ELSE "select"
    /\ UNCHANGED <<cfgVars, pipeCap, Pipe, pool, bufs, data, tmC, pumpRet, pv, now, ch, limit>>
    /\ UNCHANGED <<prodVars, fileVars, renVars, sweepVars, histVars>>

\* ----- the retention sweeper: _initFileRemove -------------------------------
RECURSIVE WalkNames(_)
\* filepath.Walk, lines 112-126: the matching names, in the lexical order Walk visits them
WalkNames(S) == IF S = {} THEN <<>> ELSE <<Min(S)>> \o WalkNames(S \ {Min(S)})

RECURSIVE Insert(_, _)
Insert(x, sq) ==
    IF sq = <<>> THEN <<x>>
    ELSE IF x < Head(sq) THEN <<x>> \o sq ELSE <<Head(sq)>> \o Insert(x, Tail(sq))

RECURSIVE SortNames(_)
\* sort.Slice, lines 136-138: ascending by name
SortNames(sq) == IF sq = <<>> THEN <<>> ELSE Insert(Head(sq), SortNames(Tail(sq)))

\* early returns that forget the active file in the count
SweepSkipsNoPlus(n, maxFileCount) == maxFileCount <= 0 \/ n <= maxFileCount

\* line 128 and line 132: cleanFile returns without deleting
SweepSkips(n, maxFileCount) == maxFileCount <= 0 \/ n + 1 <= maxFileCount

\* the loop bound without its + 1
SweepMoreNoPlus(i, n, maxFileCount) == i < n - maxFileCount

\* line 140: the loop goes on
SweepMore(i, n, maxFileCount) == i < n + 1 - maxFileCount

\* line 147: the sweeper receives from ch
SweepWake ==
    /\ sweepPc = "wait"
    /\ ch > 0
    /\ ch' = ch - 1
    /\ notifs' = 0
    /\ sweepPc' = "walk"
    /\ UNCHANGED <<cfgVars, pipeCap, Pipe, pool, bufs, data, maxCacheSize, tmC, pumpPc,
                   pumpRet, pv, now, limit, flist, idx, enq, written, swept, lastWriter,
                   capLowered, rotCfg, ioFailed>>
    /\ UNCHANGED <<prodVars, fileVars, renVars>>

\* lines 109-138: the walk, the two early returns and the sort
SweepWalk ==
    /\ sweepPc = "walk"
    /\ LET listed == WalkNames(DOMAIN rotated) IN
        IF SweepSkips(Len(listed), MaxFileCount)
        THEN /\ sweepPc' = "wait"
             /\ flist' = <<>>
        ELSE /\ sweepPc' = "remove"
             /\ flist' = SortNames(listed)
    /\ idx' = 0
    /\ UNCHANGED <<cfgVars, pipeCap, Pipe, pool, bufs, data, maxCacheSize, tmC, pumpPc,
                   pumpRet, pv, now, ch, limit>>
    /\ UNCHANGED <<prodVars, fileVars, renVars, histVars>>

\* lines 140-142: one turn of the loop: the test, then os.Remove(flist[i]); an
\* index past the end of flist panics, and cleanFile's recover ends the pass
SweepRemove ==
    /\ sweepPc = "remove"
    /\ IF SweepMore(idx, Len(flist), MaxFileCount)
       THEN IF idx < Len(flist)
            THEN /\ rotated' = Removed(rotated, flist[idx + 1])
                 /\ swept' = (swept \/ flist[idx + 1] \in DOMAIN rotated)
                 /\ idx' = idx + 1
                 /\ UNCHANGED <<sweepPc, flist>>
            ELSE /\ sweepPc' = "wait"
                 /\ flist' = <<>>
                 /\ idx' = 0
                 /\ UNCHANGED <<rotated, swept>>
       ELSE /\ sweepPc' = "wait"
            /\ flist' = <<>>
            /\ idx' = 0
            /\ UNCHANGED <<rotated, swept>>
    /\ UNCHANGED <<cfgVars, pipeCap, Pipe, pool, bufs, data, maxCacheSize, tmC, pumpPc,
                   pumpRet, pv, active, now, ch, limit, enq, written, notifs, lastWriter,
                   capLowered, rotCfg, ioFailed>>
    /\ UNCHANGED <<prodVars, renVars>>

\* ----- the specifications ------------------------------------------------------
\* the configuration setters, called while the sink runs
Setters ==
    \/ \E v \in FileSizeArgs : SetMaxFileSize(v)
    \/ \E k \in FileCountArgs : SetMaxFileCount(k)

\* the callers of Write, the ticker, the clock
Env ==
    \/ \E p \in Prod, n \in PayloadLens : WriteFill(p, n)
    \/ \E p \in Prod : WriteSend(p)
    \/ TimerFire
    \/ ClockSecond

\* the sweeper's steps
Sweeper ==
    \/ SweepWake
    \/ SweepWalk
    \/ SweepRemove

\* the pump's steps when every file operation succeeds
Pump ==
    \/ PumpRecv
    \/ PumpPut
    \/ PumpTickIdle
    \/ PumpTickFlush(IoOk)
    \/ PumpEagerFlush(IoOk)
    \/ PumpRename
    \/ PumpMustWrite(IoOk)
    \/ PumpNotify
    \/ PumpRecalc

\* the pump's steps in which a file operation fails
PumpFails ==
    \/ \E io \in limit.fails : PumpTickFlush(io)
    \/ \E io \in limit.fails : PumpEagerFlush(io)
    \/ PumpRenameFail
    \/ \E io \in limit.fails : PumpMustWrite(io)
    \/ PumpRestart

Next == Setters \/ Env \/ Sweeper \/ Pump

NextCfg == Env \/ Sweeper \/ Pump

NextIO == Env \/ Sweeper \/ Pump \/ PumpFails

\* a flush that is due: the tick case with data, or the eager flush
FlushStep == \E io \in IoOutcomes : PumpTickFlush(io) \/ PumpEagerFlush(io)

\* the rest of _writeFile and of the loop body
FinishStep ==
    \/ PumpPut
    \/ PumpRestart
    \/ PumpRename
    \/ PumpRenameFail
    \/ \E io \in IoOutcomes : PumpMustWrite(io)
    \/ PumpNotify
    \/ PumpRecalc

\* the goroutines run, the ticker ticks, and select (line 238) does not pass
\* over a case that stays ready
PumpFairness ==
    /\ WF_vars(TimerFire)
    /\ WF_vars(PumpRecv)
    /\ WF_vars(FlushStep)
    /\ WF_vars(FinishStep)

\* and so do the sweeper and the callers inside Write
Fairness ==
    /\ PumpFairness
    /\ WF_vars(Sweeper)
    /\ \A p \in Prod : WF_vars(WriteSend(p))

\* the sink with its setters called at any time; file operations succeed
Spec == Init /\ [][Next]_vars

\* the sink configured before use; file operations succeed
SpecCfg == InitCfg /\ [][NextCfg]_vars

\* the same, under fair scheduling
FairCfg == InitLive /\ [][NextCfg]_vars /\ Fairness

\* the sink configured before use, file operations failing at will, the pump
\* and the ticker scheduled fairly
FairIO == InitLive /\ [][NextIO]_vars /\ PumpFairness

\* the smallest files and a caller that fills the channel, file operations
\* failing at will, the pump and the ticker scheduled fairly, and so the callers
\* inside Write
FairWrite ==
    /\ InitBusy
    /\ [][NextIO]_vars
    /\ PumpFairness
    /\ \A p \in Prod : WF_vars(WriteSend(p))

\* ----- what the claims speak of -------------------------------------------------
RECURSIVE CatRotated(_)
\* the rotated files' bytes, in the order of their names, which is rotation order
CatRotated(S) == IF S = {} THEN <<>> ELSE rotated[Min(S)] \o CatRotated(S \ {Min(S)})

\* the bytes of this run in sq (those of an earlier run's files are 0)
NewBytes(sq) == SelectSeq(sq, LAMBDA b : b # 0)

\* the bytes of this run that are in the log files: rotated files, then the active file
OnDisk == NewBytes(CatRotated(DOMAIN rotated) \o active.bytes)

\* the accepted bytes the sink still holds in memory, oldest first
InMemory == data \o Flatten(Pipe)

\* a step that begins an append: _writeFile calling _tryWrite
TryStep ==
    /\ tmC = 1
    /\ tmC' = 0
    /\ \/ pumpPc = "select" /\ Len(data) > 0
       \/ pumpPc = "eager"

\* C1: as long as no file was deleted by the sweeper, the bytes in the log
\* files (rotated files in rotation order, then the active file), followed by
\* those still held in memory, are the payloads in the order they were enqueued:
\* nothing is reordered, split, duplicated or lost.
C1_Original == ~swept => OnDisk \o InMemory = enq

Count(sq, k) == Len(SelectSeq(sq, LAMBDA b : b = k))

C3_Backpressure ==
    /\ [](Len(Pipe) <= pipeCap)
    /\ [][/\ \A p \in Prod :
                (wpc[p] = "send" /\ wpc'[p] # "send") => Pipe' = Append(Pipe, wbuf[p])
          /\ \A p \in Prod :
                (wpc[p] = "send" /\ Len(Pipe) >= pipeCap)
                    => (wpc'[p] = "send" /\ wbuf'[p] = wbuf[p])
          /\ Pipe' # Pipe =>
                \/ \E p \in Prod : wpc[p] = "send" /\ Pipe' = Append(Pipe, wbuf[p])
                \/ Pipe' = Tail(Pipe) /\ data' = data \o bufs[Head(Pipe)]
         ]_vars

\* a caller blocked in its send on a full channel
C3_Witness == \E p \in Prod : wpc[p] = "send" /\ Len(Pipe) = pipeCap

\* C4 as stated: at the start of every append attempt the active file's size
\* is at most the max file size.
C4_Original == [][TryStep => Len(active.bytes) <= MaxFileSize]_vars

\* C4 amended: the active file is larger than the max file size, at the start
\* of an append attempt as at any other time, only if its last append was
\* _mustWrite's unconditional write after a refused append, or if the max file
\* size was lowered after its last append.
C4_Amended == Len(active.bytes) > MaxFileSize => (lastWriter = "must" \/ capLowered)

\* an append attempt has just observed a file above the cap, and refused
C4_Witness ==
    /\ pumpPc = "rename"
    /\ Len(active.bytes) > MaxFileSize
    /\ lastWriter = "must"
    /\ ~capLowered

\* C5: _tryWrite, finding the file at size c with n bytes to append and max file
\* size S, refuses without writing exactly when c + n > S (and _writeFile goes on
\* to rotate); otherwise it appends the n bytes and the file's size c + n is at
\* most S.
C5_TryAppend ==
    [][TryStep =>
        LET c == Len(active.bytes)
            n == Len(data)
        IN  IF c + n > MaxFileSize
            THEN /\ pumpPc' = "rename"
                 /\ active'.bytes = active.bytes
                 /\ data' = data
                 /\ written' = written
            ELSE /\ pumpPc' # "rename"
                 /\ active'.bytes = active.bytes \o data
                 /\ Len(active'.bytes) = c + n
                 /\ c + n <= MaxFileSize
      ]_vars

\* S + 1 bytes were refused on an empty file: the rotation is next, nothing is written
C5_Witness == pumpPc = "rename" /\ active.bytes = <<>> /\ Len(data) = MaxFileSize + 1

\* C6: a buffer larger than the max file size is refused by _tryWrite whatever
\* the active file holds; the active file is renamed away; and _mustWrite then
\* writes the whole buffer to the new active file, which is larger than the cap.
C6_Oversized ==
    [][/\ (TryStep /\ Len(data) > MaxFileSize) =>
            (pumpPc' = "rename" /\ written' = written /\ active'.bytes = active.bytes)
       /\ (pumpPc = "rename" /\ pumpPc' = "mustWrite") =>
            (~active'.exists /\ now \in DOMAIN rotated' /\ rotated'[now] = active.bytes)
       /\ (pumpPc = "mustWrite" /\ pumpPc' = "notify" /\ Len(data) > MaxFileSize) =>
            (active'.bytes = data /\ Len(active'.bytes) > MaxFileSize)
      ]_vars

\* _mustWrite has left an active file above the cap
C6_Witness == pumpPc = "notify" /\ lastWriter = "must" /\ Len(active.bytes) > MaxFileSize

\* a step that ends a sweep pass which deleted
PassEnd == sweepPc = "remove" /\ sweepPc' = "wait"

\* C7 as stated: with K > 0, a sweep that finds K + 1 rotated files (or K + 2,
\* counting the one the rotation just made) deletes exactly one and leaves K.
C7_Original ==
    [][(/\ PassEnd
        /\ MaxFileCount > 0
        /\ Len(flist) \in {MaxFileCount + 1, MaxFileCount + 2})
            => idx = 1
      ]_vars

\* C7 amended: with K > 0, a sweep that lists c rotated files, c + 1 > K, deletes
\* exactly the c + 1 - K oldest and leaves K - 1 of them: with K + 1 rotated
\* files present and one new rotation (c = K + 2) it deletes three, not one.
C7_Amended ==
    [][/\ (PassEnd /\ MaxFileCount > 0) =>
            /\ idx = Len(flist) + 1 - MaxFileCount
            /\ Len(flist) - idx = MaxFileCount - 1
       /\ (sweepPc = "remove" /\ idx' = idx + 1) =>
            /\ rotated' = Removed(rotated, flist[idx + 1])
            /\ \A j \in (idx + 2)..Len(flist) : flist[idx + 1] < flist[j]
      ]_vars

\* K + 2 rotated files were listed and the three oldest are deleted
C7_Witness ==
    /\ sweepPc = "remove"
    /\ MaxFileCount > 0
    /\ Len(flist) = MaxFileCount + 2
    /\ idx = 3

\* C8: while the max retained count is 0 or less, no rotated file is deleted.
C8_Original == [][MaxFileCount <= 0 => DOMAIN rotated \subseteq DOMAIN rotated']_vars

\* C9: with a max retained count K > 0 in effect and at least one rotation, the
\* sink reaches and stays in states with at most K rotated files.
C9_Retention ==
    <>[]((MaxFileCount > 0 /\ rotCfg) => Cardinality(DOMAIN rotated) <= MaxFileCount)

\* after a rotation the sweeper has deleted down to the count and is idle again
C9_Witness ==
    /\ MaxFileCount > 0
    /\ rotCfg
    /\ swept
    /\ sweepPc = "wait"
    /\ ch = 0
    /\ pumpPc = "select"
    /\ Cardinality(DOMAIN rotated) <= MaxFileCount

\* C10: the trigger holds at most one signal, and exactly one as soon as one or
\* more notifications were issued since the sweeper last woke: they make one pass.
C10_Coalescing ==
    /\ ch <= ChCap
    /\ notifs = 0 => ch = 0
    /\ notifs >= 1 => ch = 1

\* two notifications are pending as one signal, the sweeper not yet woken
C10_Witness == notifs = 2 /\ ch = 1 /\ sweepPc = "wait"

\* C11 as stated: once the accumulation buffer exceeds the max cache size, the
\* pump flushes at once: its flush step can be taken whatever the ticker's
\* state, without waiting for a further tick.
C11_Original == pumpPc = "eager" => ENABLED PumpEagerFlush(IoOk)

\* a call of _writeFile whose _tryWrite has the outcome io
Flush(io) == PumpTickFlush(io) \/ PumpEagerFlush(io)

\* a step of the pump that drops bytes: they were in data or written to a file
\* before it, and are in neither after it
Drops == Len(written') + Len(data') < Len(written) + Len(data)

\* C12 as stated: the bytes handed to _writeFile are dropped only where the
\* rename has failed (the old active file is still there) and _mustWrite then
\* fails; on every other path they are appended.
C12_Original == [][Drops => (pumpPc = "mustWrite" /\ active.exists)]_vars

\* C12 amended: the bytes handed to _writeFile are dropped exactly on these
\* paths: _tryWrite cannot open the file (it returns true and nothing rotates);
\* its stat fails (the pump panics and restarts with a new buffer); _mustWrite
\* cannot open the file, whether the rename before it succeeded or failed; a
\* copy stops short (the rest is dropped). On every other path, a failed rename
\* followed by a successful _mustWrite included, all the bytes are appended.
C12_Amended ==
    [][Drops <=>
        \/ \E io \in IoOutcomes : ~io.open /\ Flush(io)
        \/ PumpRestart
        \/ \E io \in IoOutcomes : ~io.open /\ PumpMustWrite(io)
        \/ \E io \in IoOutcomes :
                /\ io.short > 0
                /\ \/ Flush(io) /\ TryAccepts(Len(active.bytes), Len(data), MaxFileSize)
                   \/ PumpMustWrite(io)
      ]_vars

\* the rename succeeded and _mustWrite failed: the bytes are in no file
C12_Witness ==
    /\ pumpPc = "notify"
    /\ ~active.exists
    /\ rotated # <<>>
    /\ Len(written) + Len(InMemory) < Len(enq)

\* C13 as stated: a rotated file, once it exists, keeps its content, and goes
\* away only by a removal of the sweeper; no rotation replaces it.
C13_Original ==
    [][\A t \in DOMAIN rotated :
            \/ t \in DOMAIN rotated' /\ rotated'[t] = rotated[t]
            \/ t \notin DOMAIN rotated' /\ sweepPc = "remove"
      ]_vars

\* b is queued on the ingress channel
InPipe(b) == \E i \in 1..Len(Pipe) : Pipe[i] = b

\* C14: a panic in a pump iteration writes nothing; it is recovered and the
\* loop starts again with an empty accumulation buffer, so the bytes accumulated
\* at the panic are never written; the records in the channel stay there, and
\* the restarted pump goes back to its select and receives each of them.
C14_PanicRecovery ==
    /\ [][(pumpPc # "restart" /\ pumpPc' = "restart") =>
            (written' = written /\ Pipe' = Pipe /\ bufs' = bufs)]_vars
    /\ [][(pumpPc = "restart" /\ pumpPc' # "restart") =>
            /\ pumpPc' = "select"
            /\ data' = <<>>
            /\ written' = written
            /\ active' = active
            /\ Pipe' = Pipe
            /\ bufs' = bufs]_vars
    /\ (pumpPc = "restart") ~> (pumpPc = "select")
    /\ \A b \in Buf : (pumpPc = "restart" /\ InPipe(b)) ~> (pv = b)

\* the pump has panicked with bytes accumulated and a record in the channel
C14_Witness == pumpPc = "restart" /\ data # <<>> /\ Pipe # <<>>

\* how many owners the record buffer b has: the pool, the producers inside
\* Write, the places of the ingress channel, the pump
Owners(b) ==
    (IF b \in pool THEN 1 ELSE 0)
    + Cardinality({p \in Prod : wbuf[p] = b})
    + Cardinality({i \in 1..Len(Pipe) : Pipe[i] = b})
    + (IF pv = b THEN 1 ELSE 0)

\* C15: every record buffer has exactly one owner at any time. Its bytes change
\* only when a producer that has just taken it from the pool fills it, or when
\* the pump that holds it resets it; so a producer never touches a buffer it has
\* sent, and none is written while queued or being drained. The pump puts a
\* buffer back into the pool only reset, its bytes copied to the end of data.
C15_Ownership ==
    /\ [](\A b \in Buf : Owners(b) = 1)
    /\ [][\A b \in Buf :
            /\ bufs'[b] # bufs[b] =>
                \/ b \in pool /\ \E p \in Prod : wbuf[p] = 0 /\ wbuf'[p] = b
                \/ pv = b /\ bufs'[b] = <<>>
            /\ (b \notin pool /\ b \in pool') =>
                /\ pv = b
                /\ pv' = 0
                /\ bufs'[b] = <<>>
                /\ Len(data) >= Len(bufs[b])
                /\ SubSeq(data, Len(data) - Len(bufs[b]) + 1, Len(data)) = bufs[b]
      ]_vars

\* the pump holds a buffer while another is queued and a producer fills a third
C15_Witness == pv # 0 /\ Pipe # <<>> /\ \E p \in Prod : wpc[p] = "send"

\* C16: a sweep pass with max retained count K > 0 that lists count rotated
\* files deletes nothing when count + 1 <= K; otherwise it deletes, oldest
\* first, exactly the count + 1 - K files with the smallest names, so that every
\* file it keeps is newer than every file it deletes; no step of the sweeper
\* touches the active file.
C16_Selection ==
    [][/\ (sweepPc = "walk" /\ sweepPc' # "walk" /\ MaxFileCount > 0) =>
            /\ rotated' = rotated
            /\ IF Cardinality(DOMAIN rotated) + 1 <= MaxFileCount
               THEN sweepPc' = "wait"
               ELSE /\ sweepPc' = "remove"
                    /\ {flist'[j] : j \in 1..Len(flist')} = DOMAIN rotated
                    /\ \A i, j \in 1..Len(flist') : i < j => flist'[i] < flist'[j]
       /\ (sweepPc = "remove" /\ rotated' # rotated /\ active' = active) =>
            /\ idx' = idx + 1
            /\ idx' <= Len(flist) + 1 - MaxFileCount
            /\ DOMAIN rotated' = DOMAIN rotated \ {flist[idx']}
            /\ \A j \in 1..Len(flist) : j < idx' <=> flist[j] < flist[idx']
       /\ (PassEnd /\ MaxFileCount > 0) =>
            /\ idx = Len(flist) + 1 - MaxFileCount
            /\ \A i \in 1..idx, j \in (idx + 1)..Len(flist) : flist[i] < flist[j]
       /\ (sweepPc' # sweepPc \/ idx' # idx) => active' = active
      ]_vars

\* a pass has deleted the files it had to, and keeps the newest it listed
C16_Witness ==
    /\ sweepPc = "remove"
    /\ MaxFileCount > 1
    /\ idx = Len(flist) + 1 - MaxFileCount
    /\ idx > 1
    /\ flist[Len(flist)] \in DOMAIN rotated
    /\ \A j \in 1..idx : flist[j] \notin DOMAIN rotated

\* C17: no lost wake-up. After every rotation (the rename done, the pump about
\* to call _mustWrite) the sweeper comes to the start of a pass, its listing
\* still to be made, whether the notification found a signal pending or the
\* sweeper took the pending signal at the same time.
C17_NoLostWakeup == (pumpPc = "mustWrite") ~> (sweepPc = "walk")

\* a rotation was notified while the sweeper was deleting in an earlier pass
C17_Witness == notifs = 1 /\ ch = 1 /\ sweepPc = "remove" /\ idx > 0

\* C18: the order of _writeFile's steps. When _tryWrite accepts, _writeFile
\* returns: no rename, no signal to the sweeper. When it refuses, nothing is
\* written yet, and the pump goes through the rename, then _mustWrite, which
\* writes the buffer, then one notification, then back to its loop; files are
\* renamed, and the sweeper signalled, at no other point. The notification can
\* always be taken: it never blocks the pump.
C18_Protocol ==
    /\ [](pumpPc = "notify" => ENABLED PumpNotify)
    /\ [][/\ (TryStep /\ TryAccepts(Len(active.bytes), Len(data), MaxFileSize)) =>
               (pumpPc' \in {"recalc", "select"} /\ rotated' = rotated /\ ch' = ch)
          /\ (TryStep /\ ~TryAccepts(Len(active.bytes), Len(data), MaxFileSize)) =>
               /\ pumpPc' = "rename"
               /\ written' = written
               /\ rotated' = rotated
               /\ ch' = ch
          /\ pumpPc = "rename" => pumpPc' \in {"rename", "mustWrite"}
          /\ pumpPc = "mustWrite" => pumpPc' \in {"mustWrite", "notify"}
          /\ pumpPc = "notify" => pumpPc' \in {"notify", "recalc", "select"}
          /\ pumpPc' = "mustWrite" => pumpPc \in {"rename", "mustWrite"}
          /\ pumpPc' = "notify" => pumpPc \in {"mustWrite", "notify"}
          /\ (pumpPc = "rename" /\ pumpPc' = "mustWrite") =>
               (~active'.exists /\ written' = written /\ ch' = ch)
          /\ (pumpPc = "mustWrite" /\ pumpPc' = "notify") =>
               (written' = written \o data /\ rotated' = rotated /\ ch' = ch)
          /\ (pumpPc = "notify" /\ pumpPc' # "notify") =>
               (ch' = 1 /\ rotated' = rotated /\ written' = written)
          /\ (\E t \in DOMAIN rotated' : t \notin DOMAIN rotated \/ rotated'[t] # rotated[t]) =>
               (pumpPc = "rename" /\ pumpPc' = "mustWrite")
          /\ ch' > ch => (pumpPc = "notify" /\ pumpPc' # "notify")
         ]_vars

\* a refused flush has gone through rename, _mustWrite and its notification
C18_Witness ==
    /\ pumpPc = "recalc"
    /\ notifs = 1
    /\ ch = 1
    /\ lastWriter = "must"
    /\ rotated # <<>>

\* C19: whenever the pump waits at its select, the accumulation buffer holds at
\* most maxCacheSize bytes, and maxCacheSize is min(MaxFileSize, 1 MiB).
C19_Bounded ==
    /\ pumpPc = "select" => Len(data) <= maxCacheSize
    /\ maxCacheSize = CalcMaxCacheSize(MaxFileSize)
    /\ maxCacheSize <= MiB

\* the pump is back at its select after an eager flush has emptied the buffer
C19_Witness ==
    /\ pumpPc = "select"
    /\ pumpRet = "eager"
    /\ data = <<>>
    /\ Len(written) > maxCacheSize

\* C20: every Write call returns, also when it was blocked on a full channel,
\* when pump iterations panic and restart and when the pump sleeps in _rename's
\* retries: the callers making finitely many calls, from some point on no
\* caller is inside Write any more.
C20_WriteReturns == <>[](\A p \in Prod : wpc[p] = "idle")

\* a caller is blocked on a full channel while the pump retries a failed rename
C20_Witness ==
    /\ \E p \in Prod : wpc[p] = "send"
    /\ Len(Pipe) = pipeCap
    /\ pumpPc = "rename"
    /\ tries = 1

====
